---------------------------- MODULE Spec2Model ----------------------------
(***************************************************************************)
(* The PDF reader service of RAGflow (src/pdf_reader): the ingest pass     *)
(* (PDFReader.process_bucket / process_object), the deletion sweep         *)
(* (PDFReader.scan_deletions), the marker codec and the publish helper     *)
(* (helpers.py) and the driving loop (cli.py main).                        *)
(*                                                                         *)
(* Strings are sequences of one-character strings, so that the codec's     *)
(* concatenation, prefix tests and right splits are computed, not assumed. *)
(***************************************************************************)
EXTENDS Integers, Sequences, FiniteSets, TLC

(***************************************************************************)
(* Strings.                                                                *)
(***************************************************************************)
\* Byte order of the characters in use (the object store lists in it).
Ord(c) ==
    CASE c = "-"  -> 45
      [] c = "."  -> 46
      [] c = "/"  -> 47
      [] c = "1"  -> 49
      [] c = "2"  -> 50
      [] c = "3"  -> 51
      [] c = "\\" -> 92
      [] c = "a"  -> 97
      [] c = "b"  -> 98
      [] c = "c"  -> 99
      [] c = "d"  -> 100
      [] c = "e"  -> 101
      [] c = "l"  -> 108
      [] c = "n"  -> 110
      [] c = "o"  -> 111
      [] c = "p"  -> 112
      [] c = "r"  -> 114
      [] c = "s"  -> 115
      [] OTHER    -> 120

\* str.startswith
StartsWith(s, p) ==
    /\ Len(p) <= Len(s)
    /\ SubSeq(s, 1, Len(p)) = p

\* s < t in byte order
RECURSIVE StrLess(_, _)
StrLess(s, t) ==
    IF t = <<>> THEN FALSE
    ELSE IF s = <<>> THEN TRUE
    ELSE IF Ord(Head(s)) # Ord(Head(t)) THEN Ord(Head(s)) < Ord(Head(t))
    ELSE StrLess(Tail(s), Tail(t))

\* The members of a finite set of strings, in byte order.
RECURSIVE SortedSeq(_)
SortedSeq(S) ==
    IF S = {} THEN <<>>
    ELSE LET m == CHOOSE x \in S : \A y \in S \ {x} : StrLess(x, y)
         IN  <<m>> \o SortedSeq(S \ {m})

\* Positions of the character c in s.
Positions(s, c) == {i \in 1..Len(s) : s[i] = c}

\* The greatest member of a non-empty finite set of numbers.
MaxOf(S) == CHOOSE x \in S : \A y \in S : y <= x

\* str.replace("\\", "/")
ReplaceBackslash(s) == [i \in 1..Len(s) |-> IF s[i] = "\\" THEN "/" ELSE s[i]]

(***************************************************************************)
(* The marker codec (helpers.py).                                          *)
(***************************************************************************)
DONE == <<"d", "o", "n", "e">>

\* marker_key: "<processed_prefix>/<safe_key>.<etag>.done"
marker_key(processed_prefix, obj_key, etag) ==
    processed_prefix \o <<"/">> \o ReplaceBackslash(obj_key)
        \o <<".">> \o etag \o <<".">> \o DONE

\* The variant of parse_marker that splits the tail at its first two dots
\* (split instead of rsplit).
ParseMarkerSplit(processed_prefix, marker_path) ==
    IF ~StartsWith(marker_path, processed_prefix \o <<"/">>)
    THEN [ok |-> FALSE, key |-> <<>>, etag |-> <<>>]
    ELSE LET tail == SubSeq(marker_path, Len(processed_prefix) + 2, Len(marker_path))
             dots == Positions(tail, ".")
         IN  IF Cardinality(dots) < 2
             THEN [ok |-> FALSE, key |-> <<>>, etag |-> <<>>]
             ELSE LET d1 == CHOOSE i \in dots : \A j \in dots : i <= j
                      d2 == CHOOSE i \in dots \ {d1} : \A j \in dots \ {d1} : i <= j
                      done == SubSeq(tail, d2 + 1, Len(tail))
                  IN  IF done # DONE
                      THEN [ok |-> FALSE, key |-> <<>>, etag |-> <<>>]
                      ELSE [ok |-> TRUE, key |-> SubSeq(tail, 1, d1 - 1),
                            etag |-> SubSeq(tail, d1 + 1, d2 - 1)]

\* The variant of parse_marker without the test of the last segment.
ParseMarkerAnySuffix(processed_prefix, marker_path) ==
    IF ~StartsWith(marker_path, processed_prefix \o <<"/">>)
    THEN [ok |-> FALSE, key |-> <<>>, etag |-> <<>>]
    ELSE LET tail == SubSeq(marker_path, Len(processed_prefix) + 2, Len(marker_path))
             dots == Positions(tail, ".")
         IN  IF Cardinality(dots) < 2
             THEN [ok |-> FALSE, key |-> <<>>, etag |-> <<>>]
             ELSE LET d2 == MaxOf(dots)
                      d1 == MaxOf(dots \ {d2})
                  IN  [ok |-> TRUE, key |-> SubSeq(tail, 1, d1 - 1),
                       etag |-> SubSeq(tail, d1 + 1, d2 - 1)]

\* parse_marker: [ok |-> TRUE, key, etag], or [ok |-> FALSE] where the code
\* raises ValueError (a wrong prefix, fewer than two dots in the tail so that
\* the three-way unpacking of rsplit fails, or a last segment other than
\* "done").
parse_marker(processed_prefix, marker_path) ==
    IF ~StartsWith(marker_path, processed_prefix \o <<"/">>)
    THEN [ok |-> FALSE, key |-> <<>>, etag |-> <<>>]
    ELSE LET tail == SubSeq(marker_path, Len(processed_prefix) + 2, Len(marker_path))
             dots == Positions(tail, ".")
         IN  IF Cardinality(dots) < 2
             THEN [ok |-> FALSE, key |-> <<>>, etag |-> <<>>]
             ELSE LET d2 == MaxOf(dots)
                      d1 == MaxOf(dots \ {d2})
                      base == SubSeq(tail, 1, d1 - 1)
                      etag == SubSeq(tail, d1 + 1, d2 - 1)
                      done == SubSeq(tail, d2 + 1, Len(tail))
                  IN  IF done # DONE
                      THEN [ok |-> FALSE, key |-> <<>>, etag |-> <<>>]
                      ELSE [ok |-> TRUE, key |-> base, etag |-> etag]

(***************************************************************************)
(* Configuration and inputs.                                               *)
(***************************************************************************)
\* settings.processed_prefix, ".processed"
ProcessedPrefix == <<".", "p", "r", "o", "c", "e", "s", "s", "e", "d">>

\* Source keys of the bucket: one without a dot, one with.
K1 == <<"a">>
K2 == <<"a", ".", "b">>
Keys == {K1, K2}

\* Content versions (etags).
E1 == <<"e", "1">>
E2 == <<"e", "2">>
Etags == {E1, E2}

\* The etag of a zero-byte marker object.
EmptyEtag == <<"e", "-">>

\* An object under the marker prefix that parse_marker rejects (one dot).
BadMarker == ProcessedPrefix \o <<"/", "a", ".", "b", "a", "d">>

\* Objects under the marker prefix the bucket may hold when the service
\* starts, each with the time it was written: the markers of K1 were written
\* e1 first, e2 last.
InitMarkerTimes ==
    (marker_key(ProcessedPrefix, K1, E1) :> 1)
        @@ (marker_key(ProcessedPrefix, K1, E2) :> 2)
        @@ (marker_key(ProcessedPrefix, K2, E1) :> 3)
        @@ (BadMarker :> 4)

\* --retry-file: not given, or a file with these stripped non-blank lines
\* (any object names: the file is the user's, and nothing checks its lines).
RetryFiles ==
    {[given |-> FALSE, keys |-> <<>>]}
        \cup {[given |-> TRUE, keys |-> ks] :
                   ks \in {<<>>, <<K1>>, <<K1, K1>>, <<K2, K1>>,
                           <<marker_key(ProcessedPrefix, K1, E1)>>}}

\* Outcomes of one call of the object store, apart from "not found", which
\* the bucket's content decides: the call answers, fails with an S3Error of
\* another code, or fails with an exception that is no S3Error.
StoreOutcomes == {"ok", "s3err", "neterr"}

\* What the broker does with one call of publish that reaches it: it
\* confirms, it refuses (nack, unroutable), the channel held is stale and the
\* publish on a fresh one is confirmed, or the channel is stale and the
\* reconnection or the second publish fails.
BrokerOutcomes == {"confirm", "nack", "lost_confirm", "lost_fail"}

\* What fetching one object does: it succeeds, fails with an S3Error at every
\* attempt, or fails with an exception that is no S3Error.
FetchOutcomes == {"ok", "s3err", "neterr"}

(***************************************************************************)
(* State.                                                                  *)
(***************************************************************************)
VARIABLES
    store,            \* the bucket: object name -> [etag, mtime]
    log,              \* the failed-objects file: the lines the current run
                      \* of process_bucket appended (the service never reads
                      \* the file; its older lines are left out)
    watch,            \* --watch
    retry_file,       \* --retry-file
    pc,               \* where the driving loop is
    cands,            \* process_bucket: objects
    idx,              \* process_bucket: position in objects
    processed_count,  \* process_bucket: processed_count
    mlist,            \* scan_deletions: markers
    midx,             \* scan_deletions: position in markers
    published_keys,   \* scan_deletions: published_keys
    removed_count,    \* scan_deletions: removed_count
    main,             \* cli.main: its calls in one-shot mode, and its end
    codec,            \* the marker codec called on its own (CodecSpec)
    pubcall,          \* one call of publish, step by step (PublishSpec)
    down,             \* a downstream stage and its input queue (DownSpec)
    bus,              \* history: the messages the broker confirmed, in order
    last,             \* history: what the latest step did
    ph                \* history: the current pass and sweep

vars == <<store, log, watch, retry_file, pc, cands, idx, processed_count,
          mlist, midx, published_keys, removed_count, main, codec, pubcall, down,
          bus, last, ph>>

(***************************************************************************)
(* The object store (the calls of the Minio client the service makes).     *)
(***************************************************************************)
\* An object as list_objects and stat_object return it.
Obj(st, name) == [name |-> name, etag |-> st[name].etag]

\* The objects of a set of names, in byte order of the names (the order in
\* which list_objects yields them).
Listing(st, names) ==
    LET sorted == SortedSeq(names)
    IN  [i \in 1..Len(sorted) |-> Obj(st, sorted[i])]

\* PDFReader._list_source_objects: of list_objects(bucket, recursive=True),
\* what does not lie under the marker prefix.
list_source_objects(st) ==
    Listing(st, {n \in DOMAIN st : ~StartsWith(n, ProcessedPrefix \o <<"/">>)})

\* list_objects(bucket, prefix=processed_prefix + "/", recursive=True): names.
list_markers(st) ==
    SortedSeq({n \in DOMAIN st : StartsWith(n, ProcessedPrefix \o <<"/">>)})

\* The time a new object gets: later than every object held.
Now(st) ==
    IF DOMAIN st = {} THEN 1 ELSE 1 + MaxOf({st[n].mtime : n \in DOMAIN st})

\* put_object(bucket, name, b""): the bucket afterwards.
PutEmpty(st, name) ==
    [n \in DOMAIN st \cup {name} |->
        IF n = name THEN [etag |-> EmptyEtag, mtime |-> Now(st)] ELSE st[n]]

\* remove_object for every name of a set.
RemoveAll(st, names) == [n \in DOMAIN st \ names |-> st[n]]

(***************************************************************************)
(* helpers.py                                                              *)
(***************************************************************************)
\* publish(connection, channel, exchange, routing_key, msg, message_id=None):
\* the parameters without a default.
PublishRequired == 5

\* publish called with npos positional arguments, the broker doing b: "ok"
\* when the call returns, else the exception raised. A call with fewer
\* positional arguments than parameters without a default raises TypeError
\* before the body runs. The body publishes once on the channel held; on
\* ChannelWrongStateError or StreamLostError it reconnects and publishes
\* once more; every other error, and every error after the reconnection,
\* reaches the caller.
publish(npos, b) ==
    IF npos < PublishRequired THEN "TypeError"
    ELSE CASE b = "confirm"      -> "ok"
           [] b = "nack"         -> "NackError"
           [] b = "lost_confirm" -> "ok"
           [] OTHER              -> "AMQPConnectionError"

\* The connections one call of publish opens (init_rabbitmq, once, when the
\* channel held proved stale).
publish_reconnects(npos, b) ==
    IF publish(npos, b) = "TypeError" THEN 0
    ELSE IF b \in {"lost_confirm", "lost_fail"} THEN 1 ELSE 0

\* is_already_processed with the marker's stat answering s: "true", "false",
\* or "raise" for an exception that is no S3Error (only S3Error is caught).
is_already_processed(st, obj, s) ==
    LET mk == marker_key(ProcessedPrefix, obj.name, obj.etag)
    IN  CASE s = "neterr" -> "raise"
          [] s = "s3err"  -> "false"
          [] OTHER        -> IF mk \in DOMAIN st THEN "true" ELSE "false"

\* write_processed_marker: the bucket afterwards.
write_processed_marker(st, obj) ==
    PutEmpty(st, marker_key(ProcessedPrefix, obj.name, obj.etag))

\* fetch_with_retry (stop_after_attempt(4), retry on S3Error only): the
\* calls of fget_object made. An object that is gone answers every attempt
\* with the S3Error NoSuchKey.
FetchStop == 4
fetch_attempts(st, obj, f) ==
    IF obj.name \notin DOMAIN st THEN (IF f = "neterr" THEN 1 ELSE FetchStop)
    ELSE IF f = "s3err" THEN FetchStop ELSE 1

\* fetch_with_retry: "ok", or the exception that reaches process_object.
fetch_with_retry(st, obj, f) ==
    IF obj.name \notin DOMAIN st THEN (IF f = "neterr" THEN "neterr" ELSE "s3err")
    ELSE f

(***************************************************************************)
(* PDFReader.process_object                                                *)
(***************************************************************************)
NoMsg == [event |-> "none", object |-> <<>>, etag |-> <<>>, text |-> <<>>,
          mid |-> <<>>]

\* What a step of the service did (history).
NoStep ==
    [op |-> "none", name |-> <<>>, etag |-> <<>>, check |-> "na",
     fetch |-> "na", attempts |-> 0, extract |-> "na", msg |-> NoMsg,
     pub |-> "na", mark |-> "na", raised |-> FALSE, logged |-> FALSE,
     removed |-> {}, stat |-> "na", cut |-> "na"]

\* A call of publish with every parameter that has no default.
FullCallPositional == PublishRequired

\* The positional arguments of the call of publish in process_object:
\* self.channel, self.ingest_exchange, self.ingest_routing_key, payload.
IngestCallPositional == 4

\* The parameters of publish without a default, in order.
PublishParams == <<"connection", "channel", "exchange", "routing_key", "msg">>

\* The positional arguments of the call of publish in process_object and in
\* scan_deletions, as written at the call sites.
IngestCallArgs ==
    <<"self.channel", "self.ingest_exchange", "self.ingest_routing_key",
      "payload">>
DeleteCallArgs ==
    <<"self.channel", "self.delete_exchange", "self.delete_routing_key",
      "deletion_msg">>

\* What Python binds to the parameter `param` of publish in a call with the
\* positional arguments args: the argument at the parameter's position, or
\* "missing" (the TypeError of the call).
publish_binding(args, param) ==
    LET i == CHOOSE j \in 1..Len(PublishParams) : PublishParams[j] = param
    IN  IF i <= Len(args) THEN args[i] ELSE "missing"

\* The ingest payload of obj, with the text extracted from content `got`.
IngestMsg(obj, got) ==
    [event |-> "ingest", object |-> obj.name, etag |-> obj.etag, text |-> got,
     mid |-> obj.etag]

\* What the broker may do with a call of publish made with npos positional
\* arguments: a call that raises before its body runs never reaches it.
BrokerInputs(npos) ==
    IF publish(npos, "confirm") = "TypeError" THEN {"na"} ELSE BrokerOutcomes

\* What befalls one object once its marker check found it unprocessed: the
\* outcome of its fetch (f), of its extraction (x), of the broker (b), of the
\* marker write (w), and whether the process is killed between the publish
\* and the marker write (kill). What an earlier failure makes moot is "na".
ProcessEnvs ==
    {[f |-> f, x |-> "na", b |-> "na", w |-> "na", kill |-> FALSE] :
         f \in {"s3err", "neterr"}}
    \cup {[f |-> "ok", x |-> "fail", b |-> "na", w |-> "na", kill |-> FALSE]}
    \cup {[f |-> "ok", x |-> "ok", b |-> b, w |-> "na", kill |-> FALSE] :
         b \in BrokerInputs(IngestCallPositional) \ {"confirm", "lost_confirm"}}
    \cup {[f |-> "ok", x |-> "ok", b |-> b, w |-> w, kill |-> FALSE] :
         b \in BrokerInputs(IngestCallPositional) \cap {"confirm", "lost_confirm"},
         w \in {"ok", "err"}}
    \cup {[f |-> "ok", x |-> "ok", b |-> b, w |-> "na", kill |-> TRUE] :
         b \in BrokerInputs(IngestCallPositional) \cap {"confirm", "lost_confirm"}}

\* The variant of PublishAndMark that writes the marker before it publishes.
MarkThenPublish(st, bs, obj, got, e) ==
    LET msg == IngestMsg(obj, got)
        r   == publish(IngestCallPositional, e.b)
        st1 == IF e.w = "err" THEN st ELSE write_processed_marker(st, obj)
    IN  [store |-> st1,
         bus |-> IF r = "ok" THEN Append(bs, msg) ELSE bs,
         msg |-> msg, pub |-> r,
         mark |-> IF e.w = "err" THEN "err" ELSE "ok",
         killed |-> FALSE]

\* The try block of process_object: build the payload, publish it, and only
\* then write the marker. `except Exception` comes first among the handlers:
\* it catches whatever publish or the marker write raises, logs it, and the
\* method returns normally.
PublishAndMark(st, bs, obj, got, e) ==
    LET msg == IngestMsg(obj, got)
        r   == publish(IngestCallPositional, e.b)
    IN  IF r # "ok"
        THEN [store |-> st, bus |-> bs, msg |-> msg, pub |-> r,
              mark |-> "na", killed |-> FALSE]
        ELSE IF e.kill
        THEN [store |-> st, bus |-> Append(bs, msg), msg |-> msg, pub |-> r,
              mark |-> "na", killed |-> TRUE]
        ELSE IF e.w = "err"
        THEN [store |-> st, bus |-> Append(bs, msg), msg |-> msg, pub |-> r,
              mark |-> "err", killed |-> FALSE]
        ELSE [store |-> write_processed_marker(st, obj),
              bus |-> Append(bs, msg), msg |-> msg, pub |-> r,
              mark |-> "ok", killed |-> FALSE]

\* The variant of process_object that goes on to publish after a failed
\* download or extraction instead of raising.
ProcessObjectGoesOn(st, bs, obj, e) ==
    LET r == PublishAndMark(st, bs, obj, st[obj.name].etag, e)
    IN  [store |-> r.store, bus |-> r.bus, killed |-> r.killed,
         step |-> [NoStep EXCEPT !.op = "process", !.name = obj.name,
                                 !.etag = obj.etag, !.check = "false",
                                 !.fetch = fetch_with_retry(st, obj, e.f),
                                 !.attempts = fetch_attempts(st, obj, e.f),
                                 !.extract = IF e.x = "ok" THEN "ok" ELSE "fail",
                                 !.msg = r.msg, !.pub = r.pub, !.mark = r.mark]]

\* process_object(obj) under e: the bucket and the bus afterwards, what was
\* done, whether the method raised, and whether the process was killed in it.
process_object(st, bs, obj, e) ==
    LET step == [NoStep EXCEPT !.op = "process", !.name = obj.name,
                               !.etag = obj.etag, !.check = "false",
                               !.fetch = fetch_with_retry(st, obj, e.f),
                               !.attempts = fetch_attempts(st, obj, e.f)]
    IN  IF step.fetch # "ok"
        THEN [store |-> st, bus |-> bs, killed |-> FALSE,
              step |-> [step EXCEPT !.raised = TRUE]]
        ELSE IF e.x # "ok"
        THEN [store |-> st, bus |-> bs, killed |-> FALSE,
              step |-> [step EXCEPT !.extract = "fail", !.raised = TRUE]]
        ELSE LET r == PublishAndMark(st, bs, obj, st[obj.name].etag, e)
             IN  [store |-> r.store, bus |-> r.bus, killed |-> r.killed,
                  step |-> [step EXCEPT !.extract = "ok", !.msg = r.msg,
                                        !.pub = r.pub, !.mark = r.mark]]

(***************************************************************************)
(* PDFReader.scan_deletions                                                *)
(***************************************************************************)
\* The positional arguments of the call of publish in scan_deletions:
\* self.channel, self.delete_exchange, self.delete_routing_key, deletion_msg.
DeleteCallPositional == 4

\* What befalls the deletion of one key found missing: the broker (b), the
\* listing of the key's markers (l) and their removal (rm: none fails, the
\* first fails, all fail).
SweepEnvs ==
    {[b |-> b, l |-> "na", rm |-> "na"] :
         b \in BrokerInputs(DeleteCallPositional) \ {"confirm", "lost_confirm"}}
    \cup {[b |-> b, l |-> "err", rm |-> "na"] :
         b \in BrokerInputs(DeleteCallPositional) \cap {"confirm", "lost_confirm"}}
    \cup {[b |-> b, l |-> "ok", rm |-> rm] :
         b \in BrokerInputs(DeleteCallPositional) \cap {"confirm", "lost_confirm"},
         rm \in {"none", "first", "all"}}

\* The deletion message whose etag is that of the key's latest marker.
DeletionMsgLatest(st, src_key, etag) ==
    LET own == {n \in DOMAIN st :
                   /\ parse_marker(ProcessedPrefix, n).ok
                   /\ parse_marker(ProcessedPrefix, n).key = src_key}
        latest == CHOOSE n \in own : \A m \in own : st[m].mtime <= st[n].mtime
        e == IF own = {} THEN etag ELSE parse_marker(ProcessedPrefix, latest).etag
    IN  [event |-> "deletion", object |-> src_key, etag |-> e, text |-> <<>>,
         mid |-> <<"d", "e", "l", "-">> \o e]

\* deletion_msg and its message_id, from the marker under examination.
DeletionMsg(st, src_key, etag) ==
    [event |-> "deletion", object |-> src_key, etag |-> etag, text |-> <<>>,
     mid |-> <<"d", "e", "l", "-">> \o etag]

\* list_objects(bucket, prefix=p, recursive=False): the names under p with no
\* further "/", and one entry "<p>...<up to the next />" for those with one.
Siblings(st, p) ==
    LET under == {n \in DOMAIN st : StartsWith(n, p)}
        Entry(n) ==
            LET slashes == {i \in Positions(n, "/") : i > Len(p)}
            IN  IF slashes = {} THEN n
                ELSE SubSeq(n, 1, CHOOSE i \in slashes : \A j \in slashes : i <= j)
    IN  SortedSeq({Entry(n) : n \in under})

\* The names the removal loop hands to remove_object, in order.
SiblingsOfKey(st, src_key) ==
    LET prefix_for_key == ProcessedPrefix \o <<"/">> \o src_key
    IN  SelectSeq(Siblings(st, prefix_for_key),
                  LAMBDA n : StartsWith(n, prefix_for_key \o <<".">>))

\* The variant of delete_key that removes the key's markers whether or not
\* the deletion was published.
DeleteKeyRegardless(st, bs, pk, rc, src_key, etag, e) ==
    LET msg  == DeletionMsg(st, src_key, etag)
        r    == publish(DeleteCallPositional, e.b)
        sibs == SiblingsOfKey(st, src_key)
        gone == {sibs[i] : i \in 1..Len(sibs)}
    IN  [store |-> RemoveAll(st, gone),
         bus |-> IF r = "ok" THEN Append(bs, msg) ELSE bs,
         pk |-> pk \cup {src_key}, rc |-> rc + Cardinality(gone),
         step |-> [NoStep EXCEPT !.op = "delete", !.name = src_key,
                                 !.etag = etag, !.check = "missing",
                                 !.msg = msg, !.pub = r, !.mark = "ok",
                                 !.removed = gone]]

\* What stat_object(bucket, src_key) does when the store answers s.
StatOutcome(st, src_key, s) ==
    IF s # "ok" THEN s
    ELSE IF src_key \in DOMAIN st THEN "found" ELSE "notfound"

\* The variant of source_missing that takes every S3Error for a missing
\* source.
SourceMissingOnAnyS3Error(st, src_key, s) ==
    CASE StatOutcome(st, src_key, s) = "found"  -> "present"
      [] StatOutcome(st, src_key, s) = "neterr" -> "raise"
      [] OTHER                                  -> "missing"

\* The existence check of the source: "present" when stat_object returns,
\* "missing" on an S3Error whose code is NoSuchKey, NoSuchObject or
\* NoSuchBucket, "inconclusive" on an S3Error of another code (logged,
\* missing stays False), "raise" on an exception that is no S3Error.
source_missing(st, src_key, s) ==
    CASE StatOutcome(st, src_key, s) = "found"    -> "present"
      [] StatOutcome(st, src_key, s) = "notfound" -> "missing"
      [] StatOutcome(st, src_key, s) = "s3err"    -> "inconclusive"
      [] OTHER                                    -> "raise"

\* One iteration of the loop over the markers, for a marker that parses to
\* (src_key, etag), whose key is not in published_keys and whose source the
\* stat found missing: the bucket, the bus, published_keys and removed_count
\* afterwards, and what was done.
delete_key(st, bs, pk, rc, src_key, etag, e) ==
    LET msg  == DeletionMsg(st, src_key, etag)
        r    == publish(DeleteCallPositional, e.b)
        step == [NoStep EXCEPT !.op = "delete", !.name = src_key,
                               !.etag = etag, !.check = "missing",
                               !.msg = msg, !.pub = r]
    IN  IF r # "ok"
        THEN [store |-> st, bus |-> bs, pk |-> pk, rc |-> rc, step |-> step]
        ELSE IF e.l = "err"
        THEN [store |-> st, bus |-> Append(bs, msg), pk |-> pk \cup {src_key},
              rc |-> rc, step |-> [step EXCEPT !.mark = "err"]]
        ELSE LET sibs == SiblingsOfKey(st, src_key)
                 gone == CASE e.rm = "all"   -> {}
                           [] e.rm = "first" -> {sibs[i] : i \in 2..Len(sibs)}
                           [] OTHER          -> {sibs[i] : i \in 1..Len(sibs)}
             IN  [store |-> RemoveAll(st, gone), bus |-> Append(bs, msg),
                  pk |-> pk \cup {src_key}, rc |-> rc + Cardinality(gone),
                  step |-> [step EXCEPT !.mark = "ok", !.removed = gone]]

(***************************************************************************)
(* The service: cli.py main, process_bucket and scan_deletions step by     *)
(* step, the external writer of the bucket, and the process being killed.  *)
(***************************************************************************)
NoObject == <<"-">>

\* The bucket holding the source objects o (key -> etag or NoObject) and the
\* markers M.
BucketOf(o, M) ==
    [n \in {k \in Keys : o[k] # NoObject} \cup M |->
        IF n \in M THEN [etag |-> EmptyEtag, mtime |-> InitMarkerTimes[n]]
        ELSE [etag |-> o[n], mtime |-> 0]]

\* The ingest events of the markers a bucket holds, in the order of their
\* listing: what the broker confirmed before those markers were written.
EventsOf(st) ==
    LET ms == SelectSeq(list_markers(st),
                        LAMBDA n : parse_marker(ProcessedPrefix, n).ok)
    IN  [i \in 1..Len(ms) |->
            LET p == parse_marker(ProcessedPrefix, ms[i])
            IN  IngestMsg([name |-> p.key, etag |-> p.etag], p.etag)]

\* The names under the marker prefix.
MarkerNames(st) == {n \in DOMAIN st : StartsWith(n, ProcessedPrefix \o <<"/">>)}

NoPass ==
    [snapMarkers |-> {}, snapBus |-> 0, quiet |-> FALSE, dirty |-> TRUE,
     clean |-> FALSE, abort |-> "none", sweepBus |-> 0, squiet |-> FALSE,
     sclean |-> FALSE, inconclusive |-> {}]

\* main before its try block: no call of the one-shot branch made, channel
\* and connection open, nothing raised to the caller, and no connection
\* opened by publish (whose return value, the connection and channel it
\* ends with, both callers discard: self.channel is assigned once, in
\* __init__, and main closes the channel and connection it opened itself).
MainStart ==
    [passes |-> 0, sweeps |-> 0, channel |-> "open", connection |-> "open",
     raises |-> "none", discarded |-> FALSE]

\* No downstream stage running.
NoDown ==
    [stage |-> "off", chan |-> "open", loop |-> "consuming", queue |-> <<>>,
     cur |-> "none", hpc |-> "idle", settled |-> <<>>, sent |-> 0,
     calls |-> 0, res |-> "none", index |-> <<>>, raised |-> FALSE]

\* publish not called on its own.
NoCall ==
    [phase |-> "off", npos |-> 0, channel |-> "none", msg |-> NoMsg,
     sent |-> <<>>, reconnects |-> 0, result |-> "none", returns |-> "none"]

\* The codec not called on its own.
NoCodec == [phase |-> "off", prefix |-> <<>>, key |-> <<>>, etag |-> <<>>,
            path |-> <<>>, out |-> [ok |-> FALSE, key |-> <<>>, etag |-> <<>>]]

Init ==
    /\ \E o \in [Keys -> Etags \cup {NoObject}] :
       \E M \in SUBSET (DOMAIN InitMarkerTimes) :
           /\ store = BucketOf(o, M)
           /\ bus = EventsOf(BucketOf(o, M))
    /\ log = <<>>
    /\ watch \in BOOLEAN
    /\ retry_file \in RetryFiles
    /\ pc = "start"
    /\ cands = <<>>
    /\ idx = 1
    /\ processed_count = 0
    /\ mlist = <<>>
    /\ midx = 1
    /\ published_keys = {}
    /\ removed_count = 0
    /\ main = MainStart
    /\ codec = NoCodec
    /\ pubcall = NoCall
    /\ down = NoDown
    /\ last = NoStep
    /\ ph = [NoPass EXCEPT !.snapMarkers = MarkerNames(store),
                           !.snapBus = Len(bus)]

\* The variant of AfterEscape in which the exception ends the loop in watch
\* mode too.
EscapeEndsLoop == "finally"

\* Where an exception that leaves process_bucket or scan_deletions takes the
\* loop: in watch mode `except BaseException` logs it and sleeps; otherwise it
\* reaches the finally that closes channel and connection.
AfterEscape == IF watch THEN "sleep" ELSE "finally"

\* The candidates in retry mode: stat_object of every line of the file, in
\* the file's order.
retry_objects(st, keys) == [i \in 1..Len(keys) |-> Obj(st, keys[i])]

Calls == <<codec, pubcall, down>>
PassLocals == <<cands, idx, processed_count>>
SweepLocals == <<mlist, midx, published_keys, removed_count>>
Config == <<watch, retry_file>>

\* process_bucket up to its loop: the listing of the bucket (s), then the
\* candidates: the stat of every line of the retry file, or the source
\* objects of a second listing (t).
StartPass ==
    /\ pc = "start"
    /\ \E s \in StoreOutcomes, t \in StoreOutcomes :
        LET missing == {i \in 1..Len(retry_file.keys) :
                            retry_file.keys[i] \notin DOMAIN store}
            escapes == \/ s # "ok"
                       \/ t # "ok"
                       \/ retry_file.given /\ missing # {}
            cause   == IF ~escapes THEN "none"
                       ELSE IF s = "ok" /\ retry_file.given THEN "stat"
                       ELSE "list"
        IN  /\ pc' = IF escapes THEN AfterEscape ELSE "pass"
            /\ cands' = IF escapes THEN <<>>
                        ELSE IF retry_file.given
                        THEN retry_objects(store, retry_file.keys)
                        ELSE list_source_objects(store)
            /\ last' = [NoStep EXCEPT !.op = "list", !.raised = escapes]
            /\ ph' = [ph EXCEPT !.snapMarkers = MarkerNames(store),
                                !.snapBus = Len(bus), !.quiet = ~escapes,
                                !.dirty = FALSE, !.abort = cause,
                                !.clean = IF escapes THEN FALSE ELSE @]
    /\ idx' = 1
    /\ processed_count' = 0
    /\ log' = <<>>
    /\ main' = IF watch THEN main ELSE [main EXCEPT !.passes = @ + 1]
    /\ UNCHANGED <<store, bus, Config, Calls, SweepLocals>>

\* Whether nothing went wrong in the step of process_bucket's loop that step
\* describes.
StepQuiet(step) ==
    /\ step.check \in {"true", "false"}
    /\ step.fetch \in {"na", "ok"}
    /\ step.extract \in {"na", "ok"}
    /\ step.pub \in {"na", "ok", "TypeError"}
    /\ step.mark \in {"na", "ok"}

\* One iteration of process_bucket's loop.
PassStep ==
    /\ pc = "pass"
    /\ idx <= Len(cands)
    /\ LET obj == cands[idx]
       IN \E s \in StoreOutcomes :
          LET chk == is_already_processed(store, obj, s)
              seen == [NoStep EXCEPT !.op = "skip", !.name = obj.name,
                                     !.etag = obj.etag, !.check = chk]
          IN  IF chk = "raise"
              THEN /\ pc' = AfterEscape
                   /\ last' = [seen EXCEPT !.op = "check", !.raised = TRUE]
                   /\ ph' = [ph EXCEPT !.quiet = FALSE, !.abort = "check",
                                       !.clean = FALSE]
                   /\ UNCHANGED <<store, bus, log, idx, processed_count, main>>
              ELSE IF chk = "true"
              THEN /\ idx' = idx + 1
                   /\ last' = seen
                   /\ UNCHANGED <<store, bus, log, pc, processed_count, ph, main>>
              ELSE \E e \in ProcessEnvs :
                   LET r == process_object(store, bus, obj, e)
                       step == [r.step EXCEPT
                                   !.check = IF s = "s3err" THEN "s3err" ELSE "false",
                                   !.logged = r.step.raised]
                   IN  /\ store' = r.store
                       /\ bus' = r.bus
                       /\ last' = [step EXCEPT !.op = IF r.killed THEN "killed" ELSE @]
                       /\ ph' = [ph EXCEPT !.quiet = @ /\ StepQuiet(step) /\ ~r.killed,
                                           !.clean = @ /\ ~r.killed,
                                           !.dirty = @ \/ r.killed]
                       /\ main' = IF r.killed THEN main
                                  ELSE [main EXCEPT !.discarded =
                                           \/ @
                                           \/ publish_reconnects(
                                                  IngestCallPositional, e.b) > 0]
                       /\ IF r.killed
                          THEN /\ pc' = "start"
                               /\ idx' = 1
                               /\ processed_count' = 0
                               /\ log' = <<>>
                          ELSE /\ pc' = pc
                               /\ idx' = idx + 1
                               /\ processed_count' =
                                      IF r.step.raised THEN processed_count
                                      ELSE processed_count + 1
                               /\ log' = IF r.step.raised
                                         THEN Append(log, obj.name) ELSE log
    /\ cands' = IF pc' = "pass" THEN cands ELSE <<>>
    /\ UNCHANGED <<Config, Calls, SweepLocals>>

\* The end of process_bucket and the start of scan_deletions: the markers
\* are listed once.
StartSweep ==
    /\ pc = "pass"
    /\ idx > Len(cands)
    /\ \E s \in StoreOutcomes :
        /\ pc' = IF s = "ok" THEN "sweep" ELSE AfterEscape
        /\ mlist' = IF s = "ok" THEN list_markers(store) ELSE <<>>
        /\ last' = [NoStep EXCEPT !.op = "listmarkers", !.raised = (s # "ok")]
        /\ ph' = [ph EXCEPT !.clean = ~ph.dirty, !.quiet = FALSE,
                            !.sweepBus = Len(bus), !.squiet = (s = "ok"),
                            !.inconclusive = {}]
    /\ midx' = 1
    /\ published_keys' = {}
    /\ removed_count' = 0
    /\ cands' = <<>>
    /\ idx' = 1
    /\ processed_count' = 0
    /\ log' = <<>>
    /\ main' = IF watch THEN main ELSE [main EXCEPT !.sweeps = @ + 1]
    /\ UNCHANGED <<store, bus, Config, Calls>>

\* One iteration of scan_deletions' loop.
SweepStep ==
    /\ pc = "sweep"
    /\ midx <= Len(mlist)
    /\ LET m == mlist[midx]
           p == parse_marker(ProcessedPrefix, m)
           seen == [NoStep EXCEPT !.name = p.key, !.etag = p.etag]
       IN  IF ~p.ok
           THEN /\ last' = [seen EXCEPT !.op = "malformed", !.name = m]
                /\ midx' = midx + 1
                /\ UNCHANGED <<store, bus, pc, published_keys, removed_count, ph,
                               main>>
           ELSE IF p.key \in published_keys
           THEN /\ last' = [seen EXCEPT !.op = "handled"]
                /\ midx' = midx + 1
                /\ UNCHANGED <<store, bus, pc, published_keys, removed_count, ph,
                               main>>
           ELSE \E s \in StoreOutcomes :
                LET found == source_missing(store, p.key, s)
                    stat  == StatOutcome(store, p.key, s)
                IN
                IF found = "raise"
                THEN /\ pc' = AfterEscape
                     /\ last' = [seen EXCEPT !.op = "stat", !.check = s,
                                             !.stat = stat, !.raised = TRUE]
                     /\ ph' = [ph EXCEPT !.squiet = FALSE, !.inconclusive = {}]
                     /\ UNCHANGED <<store, bus, midx, published_keys, removed_count,
                                    main>>
                ELSE IF found # "missing"
                THEN /\ last' = [seen EXCEPT !.op = "stat", !.stat = stat,
                                   !.check = IF found = "inconclusive"
                                             THEN "s3err" ELSE "present"]
                     /\ midx' = midx + 1
                     /\ ph' = [ph EXCEPT
                                 !.squiet = @ /\ s = "ok",
                                 !.inconclusive =
                                     IF found = "inconclusive"
                                     THEN @ \cup {p.key} ELSE @]
                     /\ UNCHANGED <<store, bus, pc, published_keys, removed_count,
                                    main>>
                ELSE \E e \in SweepEnvs :
                     LET r == delete_key(store, bus, published_keys,
                                         removed_count, p.key, p.etag, e)
                     IN  /\ store' = r.store
                         /\ bus' = r.bus
                         /\ published_keys' = r.pk
                         /\ removed_count' = r.rc
                         /\ last' = [r.step EXCEPT !.stat = stat]
                         /\ main' = [main EXCEPT !.discarded =
                                         \/ @
                                         \/ publish_reconnects(
                                                DeleteCallPositional, e.b) > 0]
                         /\ midx' = midx + 1
                         /\ pc' = pc
                         /\ ph' = [ph EXCEPT !.squiet =
                                      /\ @
                                      /\ r.step.pub \in {"ok", "TypeError"}
                                      /\ r.step.mark \in {"na", "ok"}
                                      /\ e.rm \in {"na", "none"}]
    /\ mlist' = IF pc' = "sweep" THEN mlist ELSE <<>>
    /\ UNCHANGED <<log, Config, Calls, PassLocals>>

\* The end of scan_deletions: the loop sleeps in watch mode, main reaches
\* its finally otherwise.
EndSweep ==
    /\ pc = "sweep"
    /\ midx > Len(mlist)
    /\ pc' = IF watch THEN "sleep" ELSE "finally"
    /\ mlist' = <<>>
    /\ midx' = 1
    /\ published_keys' = {}
    /\ removed_count' = 0
    /\ last' = [NoStep EXCEPT !.op = "endsweep"]
    /\ ph' = [ph EXCEPT !.squiet = FALSE, !.sclean = TRUE,
                        !.inconclusive = {}]
    /\ UNCHANGED <<store, log, bus, Config, main, Calls, PassLocals>>

\* time.sleep(poll) returns and the loop starts over.
Sleep ==
    /\ pc = "sleep"
    /\ pc' = "start"
    /\ last' = [NoStep EXCEPT !.op = "sleep"]
    /\ ph' = [ph EXCEPT !.abort = "none", !.squiet = FALSE]
    /\ UNCHANGED <<store, log, bus, Config, main, Calls, PassLocals, SweepLocals>>

\* The process is killed between two steps and started again.
Crash ==
    /\ pc \in {"pass", "sweep", "sleep"}
    /\ pc' = "start"
    /\ cands' = <<>>
    /\ idx' = 1
    /\ processed_count' = 0
    /\ log' = <<>>
    /\ mlist' = <<>>
    /\ midx' = 1
    /\ published_keys' = {}
    /\ removed_count' = 0
    /\ last' = [NoStep EXCEPT !.op = "crash"]
    /\ ph' = [ph EXCEPT !.quiet = FALSE, !.squiet = FALSE, !.dirty = TRUE,
                        !.clean = FALSE, !.abort = "none", !.sclean = FALSE,
                        !.inconclusive = {}]
    /\ main' = MainStart
    /\ UNCHANGED <<store, bus, Config, Calls>>

\* What an act of the external writer does to the history of the pass.
Disturbed == [ph EXCEPT !.quiet = FALSE, !.squiet = FALSE, !.dirty = TRUE,
                        !.clean = FALSE, !.sclean = FALSE]

\* The external writer stores new content under a key.
ExternalPut ==
    /\ pc \notin {"finally", "exit"}
    /\ \E k \in Keys, v \in Etags :
        /\ k \in DOMAIN store => store[k].etag # v
        /\ store' = [n \in DOMAIN store \cup {k} |->
                        IF n = k THEN [etag |-> v, mtime |-> 0] ELSE store[n]]
    /\ ph' = Disturbed
    /\ UNCHANGED <<log, bus, last, pc, Config, main, Calls, PassLocals, SweepLocals>>

\* The external writer deletes a source object.
ExternalDelete ==
    /\ pc \notin {"finally", "exit"}
    /\ \E k \in Keys \cap DOMAIN store :
        store' = [n \in DOMAIN store \ {k} |-> store[n]]
    /\ ph' = Disturbed
    /\ UNCHANGED <<log, bus, last, pc, Config, main, Calls, PassLocals, SweepLocals>>

\* How far the iteration of process_bucket's loop over obj can have come
\* when a KeyboardInterrupt is raised in it: in the marker check, the fetch,
\* the extraction, the call of publish, or between a publish that returned
\* and the marker write. No handler of process_object or process_bucket
\* catches it (`except Exception` does not catch a BaseException).
InterruptPoints(st, obj) ==
    {"check"}
        \cup (IF marker_key(ProcessedPrefix, obj.name, obj.etag) \in DOMAIN st
              THEN {}
              ELSE {"fetch"}
                   \cup (IF obj.name \notin DOMAIN st THEN {}
                         ELSE {"extract", "publish"}
                              \cup (IF publish(IngestCallPositional, "confirm") = "ok"
                                    THEN {"mark"} ELSE {})))

\* SIGINT: KeyboardInterrupt is raised wherever the main thread is. In watch
\* mode `except KeyboardInterrupt` breaks out of the loop, unless the thread
\* sleeps in the handler of `except BaseException`; either way, and in
\* one-shot mode, control reaches the finally of main.
Interrupt ==
    /\ pc \in {"start", "pass", "sweep", "sleep"}
    /\ LET inobj == pc = "pass" /\ idx <= Len(cands)
           obj   == IF inobj THEN cands[idx] ELSE [name |-> <<>>, etag |-> <<>>]
           pts   == IF inobj THEN InterruptPoints(store, cands[idx])
                    ELSE IF pc = "sleep" /\ last.raised THEN {"handler"}
                    ELSE {"idle"}
       IN  \E q \in pts :
             LET built == q \in {"publish", "mark"}
                 msg   == IF built THEN IngestMsg(obj, store[obj.name].etag)
                          ELSE NoMsg
             IN  /\ last' = [NoStep EXCEPT
                                !.op = "interrupt", !.name = obj.name,
                                !.etag = obj.etag, !.cut = q, !.raised = TRUE,
                                !.check = IF q \in {"fetch", "extract", "publish", "mark"}
                                          THEN "false" ELSE "na",
                                !.fetch = IF q \in {"extract", "publish", "mark"}
                                          THEN "ok" ELSE "na",
                                !.extract = IF built THEN "ok" ELSE "na",
                                !.msg = msg,
                                !.pub = IF q = "mark" THEN "ok" ELSE "na"]
                 /\ bus' = IF q = "mark" THEN Append(bus, msg) ELSE bus
    /\ pc' = "finally"
    /\ cands' = <<>>
    /\ idx' = 1
    /\ processed_count' = 0
    /\ mlist' = <<>>
    /\ midx' = 1
    /\ published_keys' = {}
    /\ removed_count' = 0
    /\ ph' = [NoPass EXCEPT !.snapMarkers = MarkerNames(store),
                            !.snapBus = Len(bus)]
    /\ UNCHANGED <<store, log, Config, main, Calls>>

\* The variant of Shutdown without the finally: what is in flight reaches
\* the caller with channel and connection as they are.
ShutdownWithoutClose ==
    /\ pc = "finally"
    /\ main' = [main EXCEPT
                     !.raises = IF last.op = "interrupt"
                                THEN (IF watch /\ last.cut # "handler" THEN "none"
                                      ELSE "KeyboardInterrupt")
                                ELSE IF last.raised THEN "error" ELSE "none"]
    /\ pc' = "exit"
    /\ UNCHANGED <<store, log, bus, last, ph, Config, Calls, PassLocals, SweepLocals>>

\* The finally of main: channel.close(), then connection.close() in the
\* inner finally whatever the first did. An Exception raised by either is
\* caught and logged and changes nothing else, so each is recorded as
\* "close_called" whether it returned or raised.
\* What was in flight when the finally was entered then reaches the caller:
\* the exception that escaped process_bucket or scan_deletions, or the
\* KeyboardInterrupt that `except KeyboardInterrupt` did not catch.
Shutdown ==
    /\ pc = "finally"
    /\ main' = [main EXCEPT
                     !.channel = "close_called",
                     !.connection = "close_called",
                     !.raises = IF last.op = "interrupt"
                                THEN (IF watch /\ last.cut # "handler" THEN "none"
                                      ELSE "KeyboardInterrupt")
                                ELSE IF last.raised THEN "error" ELSE "none"]
    /\ pc' = "exit"
    /\ UNCHANGED <<store, log, bus, last, ph, Config, Calls, PassLocals, SweepLocals>>

Next ==
    \/ StartPass
    \/ PassStep
    \/ StartSweep
    \/ SweepStep
    \/ EndSweep
    \/ Sleep
    \/ Crash
    \/ Interrupt
    \/ Shutdown
    \/ ExternalPut
    \/ ExternalDelete

Spec == Init /\ [][Next]_vars

(***************************************************************************)
(* The watch loop with the object store and the broker operational and no  *)
(* other writer of the bucket: `while True` runs one iteration after the   *)
(* other in a single thread, so a step that can be taken is taken.         *)
(***************************************************************************)
\* No call of the object store or of the broker failed in the step taken.
OperationalStep ==
    /\ ~last'.raised
    /\ last'.check # "s3err"
    /\ last'.stat \notin {"s3err", "neterr"}
    /\ last'.fetch \notin {"s3err", "neterr"}
    /\ last'.pub \notin {"NackError", "AMQPConnectionError"}
    /\ last'.mark # "err"

LiveInit == Init /\ watch /\ ~retry_file.given

LiveNext ==
    \/ StartPass /\ OperationalStep
    \/ PassStep /\ OperationalStep
    \/ StartSweep /\ OperationalStep
    \/ SweepStep /\ OperationalStep
    \/ EndSweep
    \/ Sleep

LiveSpec == LiveInit /\ [][LiveNext]_vars /\ WF_vars(LiveNext)

(***************************************************************************)
(* The marker codec called on its own: marker_key on a prefix, a key and a *)
(* version, then parse_marker on the path it returned.                     *)
(***************************************************************************)
\* Marker prefixes: the configured one, one without a dot, a nested one.
CodecPrefixes == {ProcessedPrefix, <<"p">>, <<"p", "/", "q">>}

\* Object keys: plain, dotted, nested with several dots (d/r.v2.p), with a
\* backslash, ending in ".done", and starting with a dot.
CodecKeys ==
    {K1, K2,
     <<"d", "/", "r", ".", "v", "2", ".", "p">>,
     <<"a", "\\", "b">>,
     <<"a", ".", "d", "o", "n", "e">>,
     <<".", "a">>}

\* Versions without dots or path separators, the empty one and "done" among
\* them.
CodecEtags == {E1, E2, <<>>, DONE}

CodecInit ==
    /\ codec \in {[NoCodec EXCEPT !.phase = "in", !.prefix = p, !.key = k,
                                  !.etag = v] :
                      p \in CodecPrefixes, k \in CodecKeys, v \in CodecEtags}
    /\ store = BucketOf([k \in Keys |-> NoObject], {})
    /\ bus = <<>>
    /\ log = <<>>
    /\ watch = FALSE
    /\ retry_file = [given |-> FALSE, keys |-> <<>>]
    /\ pc = "codec"
    /\ cands = <<>>
    /\ idx = 1
    /\ processed_count = 0
    /\ mlist = <<>>
    /\ midx = 1
    /\ published_keys = {}
    /\ removed_count = 0
    /\ main = MainStart
    /\ pubcall = NoCall
    /\ down = NoDown
    /\ last = NoStep
    /\ ph = NoPass

\* marker_key(prefix, key, etag)
Encode ==
    /\ codec.phase = "in"
    /\ codec' = [codec EXCEPT
                    !.phase = "encoded",
                    !.path = marker_key(codec.prefix, codec.key, codec.etag)]
    /\ UNCHANGED <<store, log, bus, last, ph, pc, main, pubcall, down, Config,
                   PassLocals, SweepLocals>>

\* parse_marker(prefix, path)
Decode ==
    /\ codec.phase = "encoded"
    /\ codec' = [codec EXCEPT
                    !.phase = "decoded",
                    !.out = parse_marker(codec.prefix, codec.path)]
    /\ UNCHANGED <<store, log, bus, last, ph, pc, main, pubcall, down, Config,
                   PassLocals, SweepLocals>>

CodecNext ==
    \/ Encode
    \/ Decode

CodecSpec == CodecInit /\ [][CodecNext]_vars

(***************************************************************************)
(* parse_marker called on its own, on paths of any shape.                  *)
(***************************************************************************)
\* What a path may begin with, for the prefix p: the prefix and its slash,
\* the prefix alone, nothing, another directory, the prefix without its
\* first character, a directory whose name begins with the prefix.
ParseHeads(p) ==
    {p \o <<"/">>, p, <<>>, <<"x", "/">>, Tail(p) \o <<"/">>,
     p \o <<"x", "/">>}

\* What a path may end with: well-formed tails, and tails with no dot, one
\* dot, the suffix misspelt, cut short, extended, or followed by more.
ParseTails ==
    {<<"a", ".", "e", "1", ".", "d", "o", "n", "e">>,
     <<"a", ".", "b", ".", "e", "1", ".", "d", "o", "n", "e">>,
     <<".", ".", "d", "o", "n", "e">>,
     <<"a", ".", "d", "o", "n", "e">>,
     <<"d", "o", "n", "e">>,
     <<"a">>,
     <<>>,
     <<"a", ".", "e", "1", ".", "d", "o", "n">>,
     <<"a", ".", "e", "1", ".", "d", "o", "n", "e", "x">>,
     <<"a", ".", "e", "1", ".", "d", "o", "n", "e", ".">>,
     <<"a", ".", "e", "1", ".", "d", "o", "n", "e", ".", "b", "a", "k">>,
     <<"a", ".", "e", "1", "d", "o", "n", "e">>,
     <<"a", ".", "e", "1", ".">>,
     <<"a", ".", "e", "1">>}

ParseInit ==
    /\ codec \in {[NoCodec EXCEPT !.phase = "raw", !.prefix = p,
                                  !.path = h \o tl] :
                      p \in CodecPrefixes, tl \in ParseTails,
                      h \in UNION {ParseHeads(q) : q \in CodecPrefixes}}
    /\ store = BucketOf([k \in Keys |-> NoObject], {})
    /\ bus = <<>>
    /\ log = <<>>
    /\ watch = FALSE
    /\ retry_file = [given |-> FALSE, keys |-> <<>>]
    /\ pc = "parse"
    /\ cands = <<>>
    /\ idx = 1
    /\ processed_count = 0
    /\ mlist = <<>>
    /\ midx = 1
    /\ published_keys = {}
    /\ removed_count = 0
    /\ main = MainStart
    /\ pubcall = NoCall
    /\ down = NoDown
    /\ last = NoStep
    /\ ph = NoPass

\* parse_marker(prefix, path)
Parse ==
    /\ codec.phase = "raw"
    /\ codec' = [codec EXCEPT
                    !.phase = "parsed",
                    !.out = parse_marker(codec.prefix, codec.path)]
    /\ UNCHANGED <<store, log, bus, last, ph, pc, main, pubcall, down, Config,
                   PassLocals, SweepLocals>>

ParseSpec == ParseInit /\ [][Parse]_vars

(***************************************************************************)
(* publish called on its own (helpers.py), step by step: the binding of    *)
(* the arguments, the publish on the channel handed in, the reconnection,  *)
(* the publish on the fresh channel.                                       *)
(***************************************************************************)
\* The channel argument: None, a channel whose is_open is False, one whose
\* is_open is True.
ChannelArgs == {"none", "closed", "open"}

\* What one basic_publish does: it returns, it raises NackError or
\* UnroutableError, it raises ChannelWrongStateError or StreamLostError, or
\* it raises another exception.
PublishOutcomes == {"confirm", "nack", "stale", "other"}

\* What Settings() followed by init_rabbitmq(cfg) does.
ReconnectOutcomes == {"ok", "fail"}

\* The payloads publish is handed: ingest and deletion messages.
CallMsgs ==
    {IngestMsg([name |-> k, etag |-> v], v) : k \in Keys, v \in Etags}
        \cup {DeletionMsg(<<>>, k, v) : k \in Keys, v \in Etags}

\* The exception of a basic_publish that did not return.
PublishError(b) ==
    CASE b = "nack"  -> "NackError"
      [] b = "stale" -> "ChannelWrongStateError"
      [] OTHER       -> "AMQPConnectionError"

PublishInit ==
    /\ pubcall \in {[NoCall EXCEPT !.phase = "entry", !.npos = n,
                                    !.channel = c, !.msg = m] :
                        n \in {IngestCallPositional, DeleteCallPositional,
                               FullCallPositional},
                        c \in ChannelArgs, m \in CallMsgs}
    /\ store = BucketOf([k \in Keys |-> NoObject], {})
    /\ bus = <<>>
    /\ log = <<>>
    /\ watch = FALSE
    /\ retry_file = [given |-> FALSE, keys |-> <<>>]
    /\ pc = "publish"
    /\ cands = <<>>
    /\ idx = 1
    /\ processed_count = 0
    /\ mlist = <<>>
    /\ midx = 1
    /\ published_keys = {}
    /\ removed_count = 0
    /\ main = MainStart
    /\ codec = NoCodec
    /\ down = NoDown
    /\ last = NoStep
    /\ ph = NoPass

PublishFrame ==
    UNCHANGED <<store, log, bus, last, ph, pc, main, codec, down, Config,
                PassLocals, SweepLocals>>

\* The call itself: the arguments are bound to the parameters, and a call
\* with fewer positional arguments than parameters without a default raises
\* TypeError.
PublishBind ==
    /\ pubcall.phase = "entry"
    /\ pubcall' = IF pubcall.npos < PublishRequired
                  THEN [pubcall EXCEPT !.phase = "raised", !.result = "TypeError"]
                  ELSE [pubcall EXCEPT !.phase = "body"]
    /\ PublishFrame

\* The fast path: if the channel looks open, one basic_publish on it; only
\* ChannelWrongStateError and StreamLostError fall through to the
\* reconnection, as does a channel that is None or not open.
PublishFast ==
    /\ pubcall.phase = "body"
    /\ IF pubcall.channel # "open"
       THEN pubcall' = [pubcall EXCEPT !.phase = "reconnect"]
       ELSE \E b \in PublishOutcomes :
              pubcall' =
                 CASE b = "confirm" ->
                        [pubcall EXCEPT !.phase = "returned", !.result = "ok",
                                        !.returns = "held",
                                        !.sent = Append(@, "held")]
                   [] b = "stale" ->
                        [pubcall EXCEPT !.phase = "reconnect",
                                        !.sent = Append(@, "held")]
                   [] OTHER ->
                        [pubcall EXCEPT !.phase = "raised",
                                        !.result = PublishError(b),
                                        !.sent = Append(@, "held")]
    /\ PublishFrame

\* cfg = Settings(); connection, channel = init_rabbitmq(cfg)
PublishReconnect ==
    /\ pubcall.phase = "reconnect"
    /\ \E rc \in ReconnectOutcomes :
         pubcall' = IF rc = "ok"
                    THEN [pubcall EXCEPT !.phase = "retry",
                                         !.reconnects = @ + 1]
                    ELSE [pubcall EXCEPT !.phase = "raised",
                                         !.reconnects = @ + 1,
                                         !.result = "AMQPConnectionError"]
    /\ PublishFrame

\* The variant of PublishRetry that reconnects again when the fresh channel
\* proves stale too.
PublishRetryReconnects ==
    /\ pubcall.phase = "retry"
    /\ \E b \in PublishOutcomes :
         pubcall' =
            CASE b = "confirm" ->
                   [pubcall EXCEPT !.phase = "returned", !.result = "ok",
                                   !.returns = "fresh",
                                   !.sent = Append(@, "fresh")]
              [] b = "stale" ->
                   [pubcall EXCEPT !.phase = "reconnect",
                                   !.sent = Append(@, "fresh")]
              [] OTHER ->
                   [pubcall EXCEPT !.phase = "raised",
                                   !.result = PublishError(b),
                                   !.sent = Append(@, "fresh")]
    /\ PublishFrame

\* The basic_publish on the fresh channel, outside any try: whatever it
\* raises reaches the caller.
PublishRetry ==
    /\ pubcall.phase = "retry"
    /\ \E b \in PublishOutcomes :
         pubcall' =
            IF b = "confirm"
            THEN [pubcall EXCEPT !.phase = "returned", !.result = "ok",
                                 !.returns = "fresh",
                                 !.sent = Append(@, "fresh")]
            ELSE [pubcall EXCEPT !.phase = "raised",
                                 !.result = PublishError(b),
                                 !.sent = Append(@, "fresh")]
    /\ PublishFrame

PublishNext ==
    \/ PublishBind
    \/ PublishFast
    \/ PublishReconnect
    \/ PublishRetry

PublishSpec == PublishInit /\ [][PublishNext]_vars

(***************************************************************************)
(* The downstream stages (src/text_chunker, src/embedder,                  *)
(* src/vector_indexer): each consumes one queue with auto_ack=False and    *)
(* handles one delivery at a time in its on_message_callback; and          *)
(* Embedder.embed_texts called on its own.  The index backend runs with    *)
(* dry_run off (its default).                                              *)
(***************************************************************************)
\* The input messages of the text chunker: a body that is no JSON, a
\* document that yields no chunk, one chunk, two chunks, and a payload on
\* which chunk_payload raises.
ChunkerMsgs == {"badjson", "empty", "one", "two", "unchunkable"}

\* The chunk messages chunk_payload returns for an input.
Chunks(m) == CASE m = "one" -> 1 [] m = "two" -> 2 [] OTHER -> 0

\* The input messages of the embedder: no JSON, a payload without
\* chunk/text, a chunk.
EmbedderMsgs == {"badjson", "nochunk", "chunk"}

\* The input messages of the vector indexer: no JSON, a payload without an
\* embedding vector (extract_vector raises at every call), two embedded
\* chunks.
IndexerMsgs == {"badjson", "novector", "vecA", "vecB"}

StageMsgs(stage) ==
    CASE stage = "chunker"  -> ChunkerMsgs
      [] stage = "embedder" -> EmbedderMsgs
      [] stage = "indexer"  -> IndexerMsgs
      [] OTHER              -> {}

\* The queues a stage may find: one or two messages, the same message
\* twice among them (a duplicate publish upstream).
StageQueues(stage) ==
    {<<m>> : m \in StageMsgs(stage)}
        \cup {<<m, n>> : m \in StageMsgs(stage), n \in StageMsgs(stage)}

\* The texts embed_texts may be handed: a string, or a list of strings (as
\* embed_one passes it).
EmbedInputs == {"str", "list"}

DownInit ==
    /\ \/ \E s \in {"chunker", "embedder", "indexer"} :
             \E q \in StageQueues(s) :
                 down = [NoDown EXCEPT !.stage = s, !.queue = q]
       \/ \E i \in EmbedInputs :
             down = [NoDown EXCEPT !.stage = "embed_texts", !.cur = i,
                                   !.hpc = "entry"]
    /\ store = BucketOf([k \in Keys |-> NoObject], {})
    /\ bus = <<>>
    /\ log = <<>>
    /\ watch = FALSE
    /\ retry_file = [given |-> FALSE, keys |-> <<>>]
    /\ pc = "down"
    /\ cands = <<>>
    /\ idx = 1
    /\ processed_count = 0
    /\ mlist = <<>>
    /\ midx = 1
    /\ published_keys = {}
    /\ removed_count = 0
    /\ main = MainStart
    /\ codec = NoCodec
    /\ pubcall = NoCall
    /\ last = NoStep
    /\ ph = NoPass

DownFrame ==
    UNCHANGED <<store, log, bus, last, ph, pc, main, codec, pubcall, Config,
                PassLocals, SweepLocals>>

\* basic_ack / basic_nack on the delivery in hand: recorded when the channel
\* is open; on a closed channel the call raises.
Settle(d, how, next) ==
    IF d.chan = "open"
    THEN [d EXCEPT !.settled = Append(@, how), !.hpc = next]
    ELSE [d EXCEPT !.hpc = "settle_raised"]

\* An exception leaves the callback: it propagates out of start_consuming,
\* and the delivery in hand stays unsettled.
RaiseIntoLoop(d) == [d EXCEPT !.hpc = "raised", !.raised = TRUE, !.loop = "stopped"]

\* start_consuming hands the next message of the queue to the callback.
Deliver ==
    /\ down.stage \in {"chunker", "embedder", "indexer"}
    /\ down.loop = "consuming"
    /\ down.chan = "open"
    /\ down.hpc \in {"idle", "done"}
    /\ down.queue # <<>>
    /\ down' = [down EXCEPT !.cur = Head(down.queue), !.queue = Tail(@),
                            !.hpc = "start", !.settled = <<>>, !.sent = 0,
                            !.calls = 0, !.res = "none"]
    /\ DownFrame

\* The connection to the broker is lost while a delivery is in hand.
ChannelLost ==
    /\ down.stage \in {"chunker", "embedder", "indexer"}
    /\ down.chan = "open"
    /\ down.hpc \notin {"idle", "done", "raised"}
    /\ down' = [down EXCEPT !.chan = "closed"]
    /\ DownFrame

(***************************************************************************)
(* text_chunker: process_message (helpers.py; cli.py holds the same body   *)
(* and is the one main registers).                                         *)
(***************************************************************************)
\* json.loads(body); on failure the message is acked, outside any try.
ChunkerLoad ==
    /\ down.stage = "chunker"
    /\ down.hpc = "start"
    /\ down' = IF down.cur = "badjson"
               THEN LET d == Settle(down, "ack", "done")
                    IN  IF d.hpc = "settle_raised" THEN RaiseIntoLoop(d) ELSE d
               ELSE [down EXCEPT !.hpc = "chunk"]
    /\ DownFrame

\* chunker.chunk_payload(payload); no chunks: ack (inside the try).
ChunkerChunk ==
    /\ down.stage = "chunker"
    /\ down.hpc = "chunk"
    /\ down' = IF down.cur = "unchunkable"
               THEN [down EXCEPT !.hpc = "except"]
               ELSE IF Chunks(down.cur) = 0
               THEN LET d == Settle(down, "ack", "done")
                    IN  IF d.hpc = "settle_raised"
                        THEN [d EXCEPT !.hpc = "except"] ELSE d
               ELSE [down EXCEPT !.hpc = "publish"]
    /\ DownFrame

\* One publish_chunk of the loop over out_msgs (mandatory, on a channel
\* with publisher confirms): confirmed, or it raises.
ChunkerPublish ==
    /\ down.stage = "chunker"
    /\ down.hpc = "publish"
    /\ \E b \in {"confirm", "refuse"} :
         down' = IF down.chan # "open" \/ b = "refuse"
                 THEN [down EXCEPT !.hpc = "except"]
                 ELSE [down EXCEPT
                          !.sent = @ + 1,
                          !.hpc = IF down.sent + 1 = Chunks(down.cur)
                                  THEN "ack" ELSE "publish"]
    /\ DownFrame

\* basic_ack after the loop, inside the try.
ChunkerAck ==
    /\ down.stage = "chunker"
    /\ down.hpc = "ack"
    /\ down' = LET d == Settle(down, "ack", "done")
               IN  IF d.hpc = "settle_raised"
                   THEN [d EXCEPT !.hpc = "except"] ELSE d
    /\ DownFrame

\* except Exception: basic_nack(requeue=False).
ChunkerNack ==
    /\ down.stage = "chunker"
    /\ down.hpc = "except"
    /\ down' = LET d == Settle(down, "nack", "done")
               IN  IF d.hpc = "settle_raised" THEN RaiseIntoLoop(d) ELSE d
    /\ DownFrame

(***************************************************************************)
(* vector_indexer: handle_message, and upsert_one under the retry          *)
(* decorator.                                                              *)
(***************************************************************************)
\* tries of @retry on upsert_one.
UpsertTries == 3

\* A wrapper whose loop ran while _tries > 0 before the last call.
RetryAgainOneMore(made, tries) == made <= tries

\* The wrapper of retry, after `made` calls of fn of which the last raised:
\* it calls fn again (the loop runs while _tries > 1, then one last call
\* whose exception is left to propagate).
retry_again(made, tries) == made < tries

\* collection.data.insert(weaviate_object, vector=vec): no uuid is given,
\* and every insert adds an object of its own.
insert(index, m) == Append(index, m)

\* load_json_bytes(body), inside the try.
IndexerLoad ==
    /\ down.stage = "indexer"
    /\ down.hpc = "start"
    /\ down' = IF down.cur = "badjson"
               THEN [down EXCEPT !.hpc = "except"]
               ELSE [down EXCEPT !.hpc = "upsert"]
    /\ DownFrame

\* One call of upsert_one by the wrapper: extract_vector raises on a
\* payload without a vector; the insert succeeds or raises.
IndexerAttempt ==
    /\ down.stage = "indexer"
    /\ down.hpc = "upsert"
    /\ \E b \in {"inserted", "raises"} :
         LET made == down.calls + 1
             fails == down.cur = "novector" \/ b = "raises"
         IN  down' =
               IF ~fails
               THEN [down EXCEPT !.calls = made, !.res = "returned",
                                 !.index = insert(@, down.cur), !.hpc = "ack"]
               ELSE IF retry_again(made, UpsertTries)
               THEN [down EXCEPT !.calls = made]
               ELSE [down EXCEPT !.calls = made, !.res = "raised",
                                 !.hpc = "except"]
    /\ DownFrame

\* basic_ack after the upsert, inside the try.
IndexerAck ==
    /\ down.stage = "indexer"
    /\ down.hpc = "ack"
    /\ down' = LET d == Settle(down, "ack", "done")
               IN  IF d.hpc = "settle_raised"
                   THEN [d EXCEPT !.hpc = "except"] ELSE d
    /\ DownFrame

\* except Exception: basic_nack(requeue=True); the broker puts the message
\* back at its place in the queue.
IndexerNack ==
    /\ down.stage = "indexer"
    /\ down.hpc = "except"
    /\ down' = LET d == Settle(down, "requeue", "done")
               IN  IF d.hpc = "settle_raised"
                   THEN RaiseIntoLoop(d)
                   ELSE [d EXCEPT !.queue = <<down.cur>> \o @]
    /\ DownFrame

(***************************************************************************)
(* embedder: the callback main registers, partial(process_message,         *)
(* embedder=embedder), called by the channel with four positional          *)
(* arguments.                                                              *)
(***************************************************************************)
\* The parameters of process_message that take a keyword argument
\* (`* embedder` collects extra positionals and takes none).
EmbedderHandlerParams == {"channel", "method", "properties", "body"}

\* The keyword arguments partial adds to every call.
EmbedderPartialKeywords == {"embedder"}

\* Python binds the call iff every keyword names a parameter.
callback_binds(params, kws) == kws \subseteq params

\* One delivery to the callback.  When the call does not bind, TypeError is
\* raised before the body and leaves the callback.
EmbedderHandle ==
    /\ down.stage = "embedder"
    /\ down.hpc = "start"
    /\ \E b \in {"confirm", "refuse"} :
         down' =
           IF ~callback_binds(EmbedderHandlerParams, EmbedderPartialKeywords)
           THEN RaiseIntoLoop(down)
           ELSE IF down.cur = "badjson"
           THEN RaiseIntoLoop(down)      \* logging.error(..., e): NameError
           ELSE IF down.cur = "nochunk"
           THEN LET d == Settle(down, "nack", "done")
                IN  IF d.hpc = "settle_raised" THEN RaiseIntoLoop(d) ELSE d
           ELSE IF down.chan # "open" \/ b = "refuse"
           THEN LET d == Settle(down, "nack", "done")
                IN  IF d.hpc = "settle_raised" THEN RaiseIntoLoop(d) ELSE d
           ELSE LET d == Settle([down EXCEPT !.sent = 1], "ack", "done")
                IN  IF d.hpc = "settle_raised" THEN RaiseIntoLoop(d) ELSE d
    /\ DownFrame

(***************************************************************************)
(* Embedder.embed_texts.                                                   *)
(***************************************************************************)
\* max_retries of Embedder.
MaxRetries == 3

\* The loop for attempt in range(1, max_retries + 1) goes on after
\* `attempt` failed requests.
next_attempt(attempt, max_retries) == attempt < max_retries

\* The isinstance check at entry.
EmbedEntry ==
    /\ down.stage = "embed_texts"
    /\ down.hpc = "entry"
    /\ down' = IF down.cur # "str"
               THEN [down EXCEPT !.hpc = "done", !.res = "EmbeddingError"]
               ELSE [down EXCEPT !.hpc = "request"]
    /\ DownFrame

\* One pass of the loop: client.request returns the embeddings, returns a
\* body without them, raises OllamaClientError, or raises something else
\* (which the except clause does not catch).
EmbedRequest ==
    /\ down.stage = "embed_texts"
    /\ down.hpc = "request"
    /\ \E b \in {"embeddings", "missing", "client_error", "other_error"} :
         LET made == down.calls + 1
         IN  down' =
               CASE b = "embeddings" ->
                      [down EXCEPT !.calls = made, !.hpc = "done",
                                   !.res = "returned"]
                 [] b = "other_error" ->
                      [down EXCEPT !.calls = made, !.hpc = "done",
                                   !.res = "OtherError"]
                 [] OTHER ->
                      IF next_attempt(made, MaxRetries)
                      THEN [down EXCEPT !.calls = made]
                      ELSE [down EXCEPT !.calls = made, !.hpc = "done",
                                        !.res = "EmbeddingError"]
    /\ DownFrame

DownNext ==
    \/ Deliver
    \/ ChannelLost
    \/ ChunkerLoad
    \/ ChunkerChunk
    \/ ChunkerPublish
    \/ ChunkerAck
    \/ ChunkerNack
    \/ IndexerLoad
    \/ IndexerAttempt
    \/ IndexerAck
    \/ IndexerNack
    \/ EmbedderHandle
    \/ EmbedEntry
    \/ EmbedRequest

DownSpec == DownInit /\ [][DownNext]_vars

\* The consumers under weak fairness: a step that stays possible is taken.
DownLiveSpec == DownInit /\ [][DownNext]_vars /\ WF_vars(DownNext)

(***************************************************************************)
(* Vocabulary of the properties.                                           *)
(***************************************************************************)
MarkerOf(k, v) == marker_key(ProcessedPrefix, k, v)
HasMarker(k, v) == MarkerOf(k, v) \in DOMAIN store

\* The events of a kind for key k (and version v) among the messages the
\* broker confirmed after the first `from`.
IngestCount(k, v, from) ==
    Cardinality({i \in (from + 1)..Len(bus) :
                    /\ bus[i].event = "ingest"
                    /\ bus[i].object = k
                    /\ bus[i].etag = v})
DeletionCount(k, from) ==
    Cardinality({i \in (from + 1)..Len(bus) :
                    bus[i].event = "deletion" /\ bus[i].object = k})

\* The lines of the failed-objects file that name k.
LogCount(k) == Cardinality({i \in 1..Len(log) : log[i] = k})

\* The markers of the bucket that parse to key k.
MarkersOfKey(k) ==
    {n \in MarkerNames(store) :
        /\ parse_marker(ProcessedPrefix, n).ok
        /\ parse_marker(ProcessedPrefix, n).key = k}

\* The version of the most recently written marker of key k.
LatestEtag(k) ==
    LET own == MarkersOfKey(k)
        n == CHOOSE x \in own : \A y \in own : store[y].mtime <= store[x].mtime
    IN  parse_marker(ProcessedPrefix, n).etag

\* process_bucket's loop has run to its end.
PassDone == pc = "pass" /\ idx > Len(cands)
\* scan_deletions' loop has run to its end.
SweepDone == pc = "sweep" /\ midx > Len(mlist)
\* The latest step ran process_object.
Processed == last.op = "process"

(***************************************************************************)
(* C1. A processed marker for (key, version) is written only after the     *)
(* publish of the ingest event for that key and version was confirmed in   *)
(* the same step: a step whose publish raised writes no marker, and every  *)
(* marker that appeared since the pass began has its confirmed event.      *)
(***************************************************************************)
C1_MarkerOnlyAfterConfirmedPublish ==
    /\ last.mark = "ok" /\ last.op \in {"process", "killed"} => last.pub = "ok"
    /\ \A n \in MarkerNames(store) \ ph.snapMarkers :
          LET p == parse_marker(ProcessedPrefix, n)
          IN  p.ok /\ IngestCount(p.key, p.etag, ph.snapBus) >= 1

\* A step whose publish raised, and no marker for its (key, version).
C1_Witness ==
    /\ Processed
    /\ last.pub \notin {"ok", "na"}
    /\ ~HasMarker(last.name, last.etag)

C3_OnePassPublishesAndMarks ==
    Processed /\ StepQuiet(last) =>
        /\ last.pub = "ok"
        /\ IngestCount(last.name, last.etag, ph.snapBus) = 1
        /\ HasMarker(last.name, last.etag)

C5_VersionChangeReprocessed ==
    PassDone /\ ph.quiet /\ ~retry_file.given =>
        \A k \in Keys \cap DOMAIN store : \A v \in Etags :
            LET w == store[k].etag
            IN  /\ v # w
                /\ MarkerOf(k, v) \in ph.snapMarkers
                /\ MarkerOf(k, w) \notin ph.snapMarkers
                => /\ IngestCount(k, w, ph.snapBus) = 1
                   /\ HasMarker(k, w)
                   /\ HasMarker(k, v)

(***************************************************************************)
(* C6. If the publish of an object's ingest event fails, no marker exists  *)
(* for that (key, version) after the step and the key has been appended    *)
(* to the failure log.                                                     *)
(***************************************************************************)
C6_PublishFailureLogged ==
    Processed /\ last.pub \notin {"ok", "na"} =>
        /\ ~HasMarker(last.name, last.etag) \/ last.check = "s3err"
        /\ last.logged
        /\ LogCount(last.name) >= 1

(***************************************************************************)
(* C7. A failure that concerns one candidate (its stat in retry mode, its  *)
(* marker check) never aborts the pass.                                    *)
(***************************************************************************)
C7_CandidateFailureNeverAborts ==
    ph.abort \notin {"stat", "check"}

(***************************************************************************)
(* C8. When an object's download is exhausted or its extraction fails, the *)
(* pass has appended the key to the failure log exactly once, has handed   *)
(* no message to publish and written no marker for it, and goes on.        *)
(***************************************************************************)
C8_FailureLoggedOnce ==
    Processed /\ (last.fetch \in {"s3err", "neterr"} \/ last.extract = "fail") =>
        /\ LogCount(last.name) = 1
        /\ last.msg = NoMsg
        /\ last.pub = "na"
        /\ last.mark = "na"
        /\ pc = "pass"

(***************************************************************************)
(* C8, amended. When the download of a candidate is exhausted or its       *)
(* extraction fails, the step appends the candidate's key to the failure   *)
(* log once, hands no message to publish, writes no marker and goes on:    *)
(* the log holds one line per failed occurrence of the key among the       *)
(* candidates examined, which is one line in full-listing mode.            *)
(***************************************************************************)
C8_FailureLoggedPerCandidate ==
    Processed /\ (last.fetch \in {"s3err", "neterr"} \/ last.extract = "fail") =>
        /\ last.logged
        /\ Len(log) >= 1
        /\ log[Len(log)] = last.name
        /\ LogCount(last.name) <=
               Cardinality({i \in 1..(idx - 1) : cands[i].name = last.name})
        /\ ~retry_file.given => LogCount(last.name) = 1
        /\ last.msg = NoMsg
        /\ last.pub = "na"
        /\ last.mark = "na"
        /\ pc = "pass"

\* A key the retry list names twice failed twice in one pass, the second
\* time in its extraction.
C8_Witness ==
    /\ Processed
    /\ last.extract = "fail"
    /\ retry_file.given
    /\ LogCount(last.name) = 2

(***************************************************************************)
(* C9. For a key with at least one marker whose source object is absent,   *)
(* a sweep in which nothing fails yields exactly one deletion event for    *)
(* the key and removes all of its markers.                                 *)
(***************************************************************************)
C9_SweepDeletesOnce ==
    SweepDone /\ ph.squiet =>
        \A k \in Keys \ DOMAIN store :
            (\E i \in 1..Len(mlist) :
                 /\ parse_marker(ProcessedPrefix, mlist[i]).ok
                 /\ parse_marker(ProcessedPrefix, mlist[i]).key = k)
            => /\ DeletionCount(k, ph.sweepBus) = 1
               /\ MarkersOfKey(k) = {}

(***************************************************************************)
(* C10, as claimed. The etag of the deletion message of a key is the       *)
(* version of the most recent marker of that key.                          *)
(***************************************************************************)
C10_EtagOfLatestMarker ==
    last.op = "delete" /\ MarkersOfKey(last.name) # {} =>
        last.msg.etag = LatestEtag(last.name)

(***************************************************************************)
(* C10, amended. The etag of the deletion message of a key, and its        *)
(* message id after "del-", is the version encoded in the marker under     *)
(* examination when the message is built.                                  *)
(***************************************************************************)
C10_EtagOfCurrentMarker ==
    last.op = "delete" =>
        /\ pc = "sweep"
        /\ midx >= 2
        /\ LET p == parse_marker(ProcessedPrefix, mlist[midx - 1])
           IN  /\ p.ok
               /\ last.msg.object = p.key
               /\ last.msg.etag = p.etag
               /\ last.msg.mid = <<"d", "e", "l", "-">> \o p.etag

\* A deletion message was built from a marker that is not the key's latest.
C10_Witness ==
    /\ last.op = "delete"
    /\ MarkersOfKey(last.name) # {}
    /\ last.msg.etag # LatestEtag(last.name)
    /\ last.msg.etag = parse_marker(ProcessedPrefix, mlist[midx - 1]).etag

\* The markers of key k in the listing the sweep iterates over.
ListedMarkersOf(k) ==
    {mlist[i] : i \in {j \in 1..Len(mlist) :
                          /\ parse_marker(ProcessedPrefix, mlist[j]).ok
                          /\ parse_marker(ProcessedPrefix, mlist[j]).key = k}}

\* This step is an iteration of scan_deletions' loop that went on to the
\* next marker.
SweepIteration == pc = "sweep" /\ pc' = "sweep" /\ midx' = midx + 1

(***************************************************************************)
(* C11. A step of the sweep whose deletion publish raised removes no       *)
(* object and publishes nothing: the marker examined is still there, and   *)
(* the key is not recorded as handled, so that its next marker, in this    *)
(* sweep or the next, has the deletion attempted again.                    *)
(***************************************************************************)
C11_FailedDeletionKeepsMarkers ==
    [][SweepIteration /\ last'.op = "delete" /\ last'.pub # "ok"
          => /\ store' = store
             /\ bus' = bus
             /\ last'.removed = {}
             /\ mlist[midx] \in DOMAIN store'
             /\ published_keys' = published_keys
             /\ last'.name \notin published_keys']_vars

\* The deletion publish of a key with two markers raised, and both markers
\* are in place.
C11_Witness ==
    /\ last.op = "delete"
    /\ last.pub \notin {"ok", "na"}
    /\ last.name \notin DOMAIN store
    /\ Cardinality(MarkersOfKey(last.name)) = 2

C13_InconclusiveKeyUntouched ==
    /\ [](pc = "sweep" =>
             \A k \in ph.inconclusive :
                 /\ DeletionCount(k, ph.sweepBus) = 0
                 /\ ListedMarkersOf(k) \subseteq DOMAIN store)
    /\ [][SweepIteration /\ last'.stat = "s3err"
             => /\ last'.op = "stat"
                /\ last'.msg = NoMsg
                /\ last'.pub = "na"
                /\ store' = store
                /\ bus' = bus
                /\ published_keys' = published_keys]_vars

\* The check of a marked key whose source is gone failed with such an error.
C13_Witness ==
    /\ pc = "sweep"
    /\ last.op = "stat"
    /\ last.stat = "s3err"
    /\ last.name \in ph.inconclusive
    /\ last.name \notin DOMAIN store
    /\ MarkersOfKey(last.name) # {}

Escaped ==
    /\ last.raised
    /\ last.op \in {"list", "check", "listmarkers", "stat"}

(***************************************************************************)
(* C16. In the watch loop with store and broker operational, a marked key  *)
(* whose source is gone and stays gone eventually has its deletion event   *)
(* confirmed and its markers removed.                                      *)
(***************************************************************************)
C16_DeletionEventuallyConfirmed ==
    \A k \in Keys :
        (k \notin DOMAIN store /\ MarkersOfKey(k) # {})
            ~> (DeletionCount(k, 0) >= 1 /\ MarkersOfKey(k) = {})

(***************************************************************************)
(* C17. In watch mode main reaches its finally only through an interrupt:  *)
(* when any other exception escaped a pass or a sweep the loop is in its   *)
(* sleep, and the sleep is followed by the start of another iteration.     *)
(***************************************************************************)
C17_WatchStopsOnlyOnInterrupt ==
    watch =>
        /\ pc \in {"finally", "exit"} => last.op = "interrupt"
        /\ Escaped => pc = "sleep"
        /\ pc = "sleep" => ENABLED Sleep

\* An exception of the marker check escaped the pass in watch mode, and the
\* loop sleeps.
C17_Witness ==
    /\ watch
    /\ pc = "sleep"
    /\ Escaped
    /\ last.op = "check"
    /\ ph.abort = "check"

(***************************************************************************)
(* C18. In one-shot mode main calls process_bucket once and then           *)
(* scan_deletions once (not at all if the pass raised), and ends; whatever *)
(* escaped either reaches the caller only after channel.close() and        *)
(* connection.close() were called.                                         *)
(***************************************************************************)
C18_OneShotRunsOnceThenCloses ==
    ~watch =>
        /\ main.passes <= 1
        /\ main.sweeps <= main.passes
        /\ pc \in {"pass", "sweep"} => main.passes = 1
        /\ pc = "sweep" => main.sweeps = 1
        /\ pc \in {"finally", "exit"} /\ last.op # "interrupt" =>
              /\ main.passes = 1
              /\ main.sweeps = 0 => last.raised
              /\ ~last.raised => main.sweeps = 1
        /\ main.raises # "none" \/ pc = "exit" =>
              /\ pc = "exit"
              /\ main.channel = "close_called"
              /\ main.connection = "close_called"
        /\ pc = "exit" /\ last.op # "interrupt" =>
              main.raises = (IF last.raised THEN "error" ELSE "none")
        /\ pc = "exit" => ~ENABLED Next

\* An error that escaped the sweep of a one-shot run has reached the caller,
\* channel and connection closed.
C18_Witness ==
    /\ ~watch
    /\ pc = "exit"
    /\ main.passes = 1
    /\ main.sweeps = 1
    /\ main.raises = "error"
    /\ main.channel = "close_called"
    /\ main.connection = "close_called"

(***************************************************************************)
(* C19. When an interrupt arrives while an object is being processed, the  *)
(* step of that object has finished (publish called) or failed normally    *)
(* (failure logged) before the loop stops.                                 *)
(***************************************************************************)
C19_InterruptedStepFinishes ==
    last.op = "interrupt" /\ last.cut \in {"fetch", "extract", "publish", "mark"} =>
        \/ last.pub # "na" /\ last.mark # "na"
        \/ last.logged

C21_TransientFetchRetried ==
    Processed /\ last.fetch # "na" =>
        /\ last.attempts \in 1..FetchStop
        /\ last.fetch = "neterr" => last.attempts > 1
        /\ last.fetch # "ok" => last.logged /\ LogCount(last.name) >= 1

(***************************************************************************)
(* C22. One call of publish reconnects at most once and publishes at most  *)
(* twice: a second publish is the one on the fresh channel after the one   *)
(* reconnection, it follows a publish on the channel held that proved      *)
(* stale, and when it fails the call raises instead of reconnecting again. *)
(***************************************************************************)
C22_OneReconnectTwoAttempts ==
    /\ pubcall.reconnects <= 1
    /\ Len(pubcall.sent) <= 2
    /\ Len(pubcall.sent) = 2 =>
          pubcall.sent = <<"held", "fresh">> /\ pubcall.reconnects = 1
    /\ "fresh" \in {pubcall.sent[i] : i \in 1..Len(pubcall.sent)} =>
          /\ pubcall.reconnects = 1
          /\ pubcall.phase \in {"returned", "raised"}
          /\ pubcall.phase = "returned" <=> pubcall.result = "ok"
    /\ pubcall.phase = "returned" =>
          pubcall.returns = pubcall.sent[Len(pubcall.sent)]

\* A call whose channel proved stale, that reconnected, and whose second
\* publish failed: the failure reached the caller.
C22_Witness ==
    /\ pubcall.phase = "raised"
    /\ pubcall.sent = <<"held", "fresh">>
    /\ pubcall.reconnects = 1
    /\ pubcall.result = "ChannelWrongStateError"

C24_AmbiguousCheckLeavesUntouched ==
    /\ last.op \in {"skip", "process"}
    /\ last.check = "s3err"
    /\ HasMarker(last.name, last.etag)
    => /\ last.fetch = "na"
       /\ last.pub = "na"
       /\ IngestCount(last.name, last.etag, ph.snapBus) = 0

(***************************************************************************)
(* C25. Markers are never treated as source documents: in no pass, in      *)
(* full-listing or in retry mode, is an object under the marker prefix a   *)
(* candidate that is fetched, extracted or handed to publish, and no       *)
(* marker is written for one.                                              *)
(***************************************************************************)
C25_MarkersNeverCandidates ==
    /\ last.op \in {"process", "killed"} =>
          ~StartsWith(last.name, ProcessedPrefix \o <<"/">>)
    /\ \A n \in MarkerNames(store) :
          ~StartsWith(n, ProcessedPrefix \o <<"/">> \o ProcessedPrefix \o <<"/">>)

(***************************************************************************)
(* C26. A candidate whose marker for its current (key, version) exists is  *)
(* skipped with no side effects: no fetch, no extraction, no publish, no   *)
(* marker write and no failure-log append is made for it.                  *)
(***************************************************************************)
C26_MarkedCandidateSkipped ==
    /\ last.op \in {"skip", "process"}
    /\ HasMarker(last.name, last.etag)
    => /\ last.op = "skip"
       /\ last.fetch = "na"
       /\ last.extract = "na"
       /\ last.pub = "na"
       /\ last.mark = "na"
       /\ ~last.logged

(***************************************************************************)
(* C27. In retry mode the objects the pass checks, fetches, publishes or   *)
(* marks are those of the keys listed in the retry file, and a listed key  *)
(* whose current version is marked is skipped.                             *)
(***************************************************************************)
C27_RetryModeOnlyListedKeys ==
    retry_file.given =>
        /\ last.op \in {"skip", "check", "process", "killed"} =>
              \E i \in 1..Len(retry_file.keys) : retry_file.keys[i] = last.name
        /\ \A i \in 1..Len(cands) :
              \E j \in 1..Len(retry_file.keys) : retry_file.keys[j] = cands[i].name
        /\ last.op = "process" => ~HasMarker(last.name, last.etag)

(***************************************************************************)
(* C28. An object whose ingest event was confirmed and whose marker write  *)
(* then failed does not abort the pass and has no marker afterwards, so    *)
(* that the next pass processes and publishes it again: whenever fetch and *)
(* extraction succeeded and the broker refused nothing, the event has been *)
(* confirmed, with or without its marker.                                  *)
(***************************************************************************)
C28_MarkerWriteFailureRepublished ==
    /\ Processed
    /\ last.fetch = "ok"
    /\ last.extract = "ok"
    /\ last.pub \notin {"NackError", "AMQPConnectionError"}
    => /\ last.pub = "ok"
       /\ last.mark \in {"ok", "err"}
       /\ last.mark = "err" =>
             /\ ~HasMarker(last.name, last.etag) \/ last.check = "s3err"
             /\ ~last.raised
             /\ IngestCount(last.name, last.etag, ph.snapBus) >= 1

(***************************************************************************)
(* C29. The processed count of a pass is the number of objects whose       *)
(* ingest event was confirmed in the pass.                                 *)
(***************************************************************************)
C29_CountEqualsConfirmed ==
    pc = "pass" => processed_count = Len(bus) - ph.snapBus

(***************************************************************************)
(* C30. Within one sweep every decoded key is handled at most once: a      *)
(* marker whose key an earlier marker of the sweep decoded to causes no    *)
(* existence check and no call of publish.                                 *)
(***************************************************************************)
C30_KeyHandledOncePerSweep ==
    /\ pc = "sweep"
    /\ midx > 1
    /\ last.op \in {"stat", "delete"}
    => \A j \in 1..(midx - 2) :
          LET p == parse_marker(ProcessedPrefix, mlist[j])
          IN  p.ok => p.key # last.name

(***************************************************************************)
(* C31. Every ingest event is published to the ingest exchange with the    *)
(* ingest routing key and the object's version as message-id, and every    *)
(* deletion event to the deletion exchange with the deletion routing key   *)
(* and message-id "del-" + version.                                        *)
(***************************************************************************)
C31_EventsRoutedAndIdentified ==
    /\ last.op = "process" /\ last.pub # "na" =>
          /\ publish_binding(IngestCallArgs, "exchange") = "self.ingest_exchange"
          /\ publish_binding(IngestCallArgs, "routing_key") = "self.ingest_routing_key"
          /\ publish_binding(IngestCallArgs, "msg") = "payload"
          /\ last.msg.mid = last.etag
          /\ last.pub # "TypeError"
    /\ last.op = "delete" /\ last.pub # "na" =>
          /\ publish_binding(DeleteCallArgs, "exchange") = "self.delete_exchange"
          /\ publish_binding(DeleteCallArgs, "routing_key") = "self.delete_routing_key"
          /\ publish_binding(DeleteCallArgs, "msg") = "deletion_msg"
          /\ last.msg.mid = <<"d", "e", "l", "-">> \o last.etag
          /\ last.pub # "TypeError"

EndsWith(s, suffix) ==
    /\ Len(s) >= Len(suffix)
    /\ SubSeq(s, Len(s) - Len(suffix) + 1, Len(s)) = suffix

(***************************************************************************)
(* C32. parse_marker fails, and returns no (key, version), for every path  *)
(* that does not start with prefix + "/" and for every path that does not  *)
(* end with ".done".                                                       *)
(***************************************************************************)
C32_MalformedPathRejected ==
    /\ codec.phase = "parsed"
    /\ \/ ~StartsWith(codec.path, codec.prefix \o <<"/">>)
       \/ ~EndsWith(codec.path, <<".">> \o DONE)
    => /\ ~codec.out.ok
       /\ codec.out.key = <<>>
       /\ codec.out.etag = <<>>

\* A path under the prefix with two dots in its tail whose last segment is
\* not "done" was parsed, and rejected.
C32_Witness ==
    /\ codec.phase = "parsed"
    /\ StartsWith(codec.path, codec.prefix \o <<"/">>)
    /\ ~EndsWith(codec.path, <<".">> \o DONE)
    /\ Cardinality(Positions(codec.path, ".")) >= 3
    /\ ~codec.out.ok

ObjectsOf(m) == {i \in 1..Len(down.index) : down.index[i] = m}

\* The delivery in hand has left the handler.
Handled == down.hpc \in {"done", "raised"}

(***************************************************************************)
(* C35. The vector indexer is idempotent under redelivery: handling the    *)
(* same embedded-chunk message twice leaves the index with the objects of  *)
(* handling it once, that is, with one object for the message.             *)
(***************************************************************************)
C35_IndexIdempotent ==
    down.stage = "indexer" =>
        \A m \in IndexerMsgs : Cardinality(ObjectsOf(m)) <= 1

(***************************************************************************)
(* C36. The text chunker handles an input all-or-nothing: once the handler *)
(* is through with a message (the channel being open), either all of its   *)
(* chunks are published and the input is acked, or none is published and   *)
(* the input is nacked.                                                    *)
(***************************************************************************)
C36_ChunksAllOrNothing ==
    (down.stage = "chunker" /\ Handled /\ down.chan = "open") =>
        \/ down.sent = Chunks(down.cur) /\ down.settled = <<"ack">>
        \/ down.sent = 0 /\ down.settled = <<"nack">>

(***************************************************************************)
(* C37. For every message delivered to a pipeline consumer (the channel    *)
(* staying open), the handler settles the delivery exactly once, by one    *)
(* basic_ack or one basic_nack, and does not raise into the consume loop.  *)
(***************************************************************************)
C37_SettledOnceNoRaise ==
    (down.stage \in {"chunker", "embedder", "indexer"} /\ Handled
        /\ down.chan = "open") =>
        /\ ~down.raised
        /\ Len(down.settled) = 1

(***************************************************************************)
(* C38. The vector indexer makes progress past a message that fails        *)
(* permanently: once delivered, a message whose indexing fails at every    *)
(* attempt is eventually acked or discarded (or the consumer has stopped), *)
(* and is not redelivered forever.                                         *)
(***************************************************************************)
C38_PoisonEventuallyDropped ==
    (down.stage = "indexer" /\ down.cur = "novector" /\ down.hpc = "start")
        ~> \/ down.loop = "stopped"
           \/ /\ down.cur = "novector"
              /\ down.hpc = "done"
              /\ down.settled \in {<<"ack">>, <<"nack">>}

(***************************************************************************)
(* C39. The bounded retries terminate: under the retry decorator           *)
(* upsert_one is called at most `tries` times for a message, no call       *)
(* follows a call that returned, and the failure that propagates is that   *)
(* of call number `tries`; embed_texts makes at most max_retries requests, *)
(* and after max_retries failed requests it raises EmbeddingError.         *)
(***************************************************************************)
C39_RetriesBounded ==
    /\ [](down.stage = "indexer" =>
            /\ down.calls <= UpsertTries
            /\ (down.res = "raised" => down.calls = UpsertTries))
    /\ [](down.stage = "embed_texts" =>
            /\ down.calls <= MaxRetries
            /\ (down.hpc = "done" /\ down.calls = MaxRetries
                    /\ down.res \notin {"returned", "OtherError"}
                  => down.res = "EmbeddingError"))
    /\ [][down.res = "returned" =>
            down'.calls = down.calls \/ down'.res = "none"]_vars

\* upsert_one has raised UpsertTries times for one delivery and the failure
\* has reached handle_message.
C39_Witness ==
    /\ down.stage = "indexer"
    /\ down.res = "raised"
    /\ down.calls = UpsertTries
    /\ down.hpc = "except"

=============================================================================
